---- MODULE Spec2Model ----
(***************************************************************************)
(* Model of firmware/src/cdc_app.c: the two TinyUSB CDC callbacks          *)
(*   tud_cdc_line_state_cb(itf, dtr, rts)   and   tud_cdc_rx_cb(itf).      *)
(*                                                                         *)
(* The USB device stack is the environment.  It owns, per interface, the   *)
(* receive FIFO (rx), the transmit side (tx: the bytes handed to           *)
(* tud_cdc_n_write, flushed: how many of them a flush has pushed out) and  *)
(* the DTR bit (dtr).  The host delivers bytes at any moment, also while   *)
(* tud_cdc_rx_cb is running.  Bytes are uint8_t values; the k-th byte the  *)
(* host delivers has value k % 256, so that loss, duplication and          *)
(* reordering are visible.                                                 *)
(*                                                                         *)
(* tud_cdc_rx_cb is modelled statement by statement (pc), every outbound   *)
(* call it makes is appended to calls, the call log of the most recent     *)
(* callback invocation.                                                    *)
(***************************************************************************)
EXTENDS Integers, Sequences, FiniteSets, TLC

\* ---- bounds of the model ------------------------------------------------
MaxDeliveries == 2     \* packets the host delivers in one run
MaxAnomalies == 1      \* reads that return 0 although bytes are pending

Itfs == {0, 1}                 \* the CDC interfaces of the device
DeliverSizes == {64, 65}      \* sizes of the packets the host delivers

\* ---- program constants --------------------------------------------------
BufSize_Big == 2 * 64
BufSize == 64          \* uint8_t buf[64]; sizeof(buf)

VARIABLES
  dtr,        \* stack: DTR bit of each interface
  rx,         \* stack: pending (unread) bytes of each interface
  tx,         \* stack: bytes passed to tud_cdc_n_write so far, per interface
  flushed,    \* stack: length of tx at the last tud_cdc_n_write_flush
  sent,       \* history: every byte the host delivered, per interface
  nsent,      \* history: number of bytes delivered on all interfaces
  ndeliv,     \* history: number of packets delivered
  anom,       \* history: number of anomalous zero reads so far
  pc,         \* position inside tud_cdc_rx_cb ("idle": no callback running)
  itf,        \* argument of the running tud_cdc_rx_cb
  buf,        \* local buf[] : the bytes the reads have stored in it
  count,      \* local count
  calls,      \* outbound calls of the most recent callback invocation
  last,       \* the most recent callback invocation and its arguments
  entry       \* history: rx/tx lengths of itf when tud_cdc_rx_cb was last
              \* entered, and the packets delivered to itf since then

vars == <<dtr, rx, tx, flushed, sent, nsent, ndeliv, anom, pc, itf, buf,
          count, calls, last, entry>>

Min(a, b) == IF a < b THEN a ELSE b

Take(s, n) == SubSeq(s, 1, Min(n, Len(s)))
Drop(s, n) == SubSeq(s, Min(n, Len(s)) + 1, Len(s))

\* one outbound call: op(i, ...) with argument arg (capacity / length),
\* result ret, the bytes moved, and pend = bytes pending on i at the call
Call(op, i, arg, ret, data, pend) ==
  [op |-> op, itf |-> i, arg |-> arg, ret |-> ret, data |-> data, pend |-> pend]

\* ---- the stack ----------------------------------------------------------

\* tud_cdc_connected() is TinyUSB's tud_cdc_n_connected(0): the DTR bit of
\* interface 0, whatever interface the callback is for
tud_cdc_connected == dtr[0]

tud_cdc_n_available(i) == Len(rx[i])

\* the counts tud_cdc_n_read(i, buf, cap) may return: min(cap, pending), or,
\* as the anomaly the handler guards against, 0
ReadCounts(i, cap) ==
  {Min(cap, Len(rx[i]))} \cup (IF anom < MaxAnomalies THEN {0} ELSE {})

\* the host delivers a packet of n bytes to interface i
Deliver(i, n) ==
  /\ ndeliv < MaxDeliveries
  /\ LET pkt == [k \in 1 .. n |-> (nsent + k) % 256] IN
       /\ rx' = [rx EXCEPT ![i] = @ \o pkt]
       /\ sent' = [sent EXCEPT ![i] = @ \o pkt]
  /\ nsent' = nsent + n
  /\ ndeliv' = ndeliv + 1
  /\ entry' = IF i = itf
                THEN [entry EXCEPT !.arrivals = @ + 1] ELSE entry
  /\ UNCHANGED <<dtr, tx, flushed, anom, pc, itf, buf, count, calls, last>>

\* ---- tud_cdc_line_state_cb ----------------------------------------------

\* the outbound calls of tud_cdc_line_state_cb(i, d, r): both branches empty
LineStateCalls_Flush(i, d, r) == IF d THEN <<>> ELSE <<Call("flush", i, 0, 0, <<>>, 0)>>
LineStateCalls(i, d, r) == IF d THEN <<>> ELSE <<>>

\* the stack stores the new DTR bit and invokes the callback
tud_cdc_line_state_cb(i, d, r) ==
  /\ pc = "idle"
  /\ dtr' = [dtr EXCEPT ![i] = d]
  /\ calls' = LineStateCalls(i, d, r)
  /\ flushed' = IF \E k \in 1 .. Len(calls') : calls'[k].op = "flush"
                  THEN [flushed EXCEPT ![i] = Len(tx[i])] ELSE flushed
  /\ last' = [op |-> "line_state", itf |-> i, dtr |-> d, rts |-> r,
              conn |-> FALSE]
  /\ UNCHANGED <<rx, tx, sent, nsent, ndeliv, anom, pc, itf, buf, count, entry>>

\* ---- tud_cdc_rx_cb ------------------------------------------------------

\* if (!tud_cdc_connected()) return;
GuardNext_NoGuard(conn) == "avail"
GuardNext(conn) == IF conn THEN "avail" ELSE "idle"

\* while (tud_cdc_n_available(itf))
WhileNext(n) == IF n # 0 THEN "read" ELSE "flush"

\* if (!count) break;
AfterRead_Return(c) == IF c = 0 THEN "idle" ELSE "write"
AfterRead_NoBreak(c) == "write"
AfterRead(c) == IF c = 0 THEN "flush" ELSE "write"

\* tud_cdc_n_write(itf, buf, count): the bytes and the interface passed
WriteData_Short(b, c) == SubSeq(b, 1, Min(c, Len(b)) - 1)
WriteData(b, c) == SubSeq(b, 1, Min(c, Len(b)))

WriteItf_Zero(i) == 0
WriteItf(i) == i

\* after the write the loop condition is evaluated again
AfterWrite_NoLoop(c) == "flush"
AfterWrite_SkipAvail(c) == "read"
AfterWrite(c) == "avail"

\* entry of the callback and the connection guard
RxCbEnter(i) ==
  /\ pc = "idle"
  /\ itf' = i
  /\ last' = [op |-> "rx", itf |-> i, dtr |-> FALSE, rts |-> FALSE,
              conn |-> tud_cdc_connected]
  /\ entry' = [rx |-> Len(rx[i]), tx |-> Len(tx[i]), arrivals |-> 0]
  /\ calls' = <<Call("is_connected", i, 0, IF tud_cdc_connected THEN 1 ELSE 0,
                     <<>>, Len(rx[i]))>>
  /\ pc' = GuardNext(tud_cdc_connected)
  /\ buf' = <<>>
  /\ count' = 0
  /\ UNCHANGED <<dtr, rx, tx, flushed, sent, nsent, ndeliv, anom>>

\* the loop condition
RxCbAvail ==
  /\ pc = "avail"
  /\ calls' = Append(calls, Call("available", itf, 0, tud_cdc_n_available(itf),
                                 <<>>, Len(rx[itf])))
  /\ pc' = WhileNext(tud_cdc_n_available(itf))
  /\ UNCHANGED <<dtr, rx, tx, flushed, sent, nsent, ndeliv, anom, itf, buf,
                 count, last, entry>>

\* count = tud_cdc_n_read(itf, buf, sizeof(buf)); if (!count) break;
RxCbRead ==
  /\ pc = "read"
  /\ \E c \in ReadCounts(itf, BufSize) :
       /\ count' = c
       /\ buf' = Take(rx[itf], c) \o Drop(buf, c)
       /\ rx' = [rx EXCEPT ![itf] = Drop(@, c)]
       /\ anom' = IF c # Min(BufSize, Len(rx[itf])) THEN anom + 1 ELSE anom
       /\ calls' = Append(calls, Call("read", itf, BufSize, c, Take(rx[itf], c),
                                      Len(rx[itf])))
       /\ pc' = AfterRead(c)
  /\ UNCHANGED <<dtr, tx, flushed, sent, nsent, ndeliv, itf, last, entry>>

\* tud_cdc_n_write(itf, buf, count);
RxCbWrite ==
  /\ pc = "write"
  /\ LET j == WriteItf(itf)
         d == WriteData(buf, count) IN
       /\ tx' = [tx EXCEPT ![j] = @ \o d]
       /\ calls' = Append(calls, Call("write", j, count, 0, d, Len(rx[itf])))
  /\ pc' = AfterWrite(count)
  /\ UNCHANGED <<dtr, rx, flushed, sent, nsent, ndeliv, anom, itf, buf, count,
                 last, entry>>

\* tud_cdc_n_write_flush(itf); and the return
RxCbFlush ==
  /\ pc = "flush"
  /\ flushed' = [flushed EXCEPT ![itf] = Len(tx[itf])]
  /\ calls' = Append(calls, Call("flush", itf, 0, 0, <<>>, Len(rx[itf])))
  /\ pc' = "idle"
  /\ UNCHANGED <<dtr, rx, tx, sent, nsent, ndeliv, anom, itf, buf, count,
                 last, entry>>

tud_cdc_rx_cb == RxCbAvail \/ RxCbRead \/ RxCbWrite \/ RxCbFlush

Init ==
  /\ dtr = [i \in Itfs |-> FALSE]
  /\ rx = [i \in Itfs |-> <<>>]
  /\ tx = [i \in Itfs |-> <<>>]
  /\ flushed = [i \in Itfs |-> 0]
  /\ sent = [i \in Itfs |-> <<>>]
  /\ nsent = 0
  /\ ndeliv = 0
  /\ anom = 0
  /\ pc = "idle"
  /\ itf = 0
  /\ buf = <<>>
  /\ count = 0
  /\ calls = <<>>
  /\ last = [op |-> "none", itf |-> 0, dtr |-> FALSE, rts |-> FALSE, conn |-> FALSE]
  /\ entry = [rx |-> 0, tx |-> 0, arrivals |-> 0]

Next ==
  \/ \E i \in Itfs, n \in DeliverSizes : Deliver(i, n)
  \/ \E i \in Itfs, d \in BOOLEAN, r \in BOOLEAN : tud_cdc_line_state_cb(i, d, r)
  \/ \E i \in Itfs : RxCbEnter(i)
  \/ RxCbAvail
  \/ RxCbRead
  \/ RxCbWrite
  \/ RxCbFlush

Spec == Init /\ [][Next]_vars

\* ---- the call log of an invocation --------------------------------------

Idx == 1 .. Len(calls)
NumCalls(op) == Cardinality({k \in Idx : calls[k].op = op})
Reads == SelectSeq(calls, LAMBDA c : c.op = "read")
Writes == SelectSeq(calls, LAMBDA c : c.op = "write")

RECURSIVE SumRet(_)
SumRet(s) == IF s = <<>> THEN 0 ELSE Head(s).ret + SumRet(Tail(s))
RECURSIVE SumArg(_)
SumArg(s) == IF s = <<>> THEN 0 ELSE Head(s).arg + SumArg(Tail(s))
RECURSIVE Concat(_)
Concat(s) == IF s = <<>> THEN <<>> ELSE Head(s).data \o Concat(Tail(s))

\* the most recent callback was tud_cdc_rx_cb and it has returned
Returned == pc = "idle" /\ last.op = "rx"
\* ... and it passed the connection guard
ReturnedConnected == Returned /\ last.conn
\* every read of the invocation returned min(64, pending)
ReadsFull == \A k \in Idx : calls[k].op = "read" => calls[k].ret = Min(64, calls[k].pend)
\* the bytes of the running iteration that are read but not yet written
InFlight(i) == IF pc = "write" /\ itf = i THEN SubSeq(buf, 1, count) ELSE <<>>
CeilDiv(n, d) == (n + d - 1) \div d

\* ---- C1 -----------------------------------------------------------------

\* C1 as stated: every invocation of tud_cdc_rx_cb that has returned made
\* exactly one flush call, also when the connection guard short-circuited.
C1_FlushEveryInvocation == Returned => NumCalls("flush") = 1

\* C1 amended: an invocation that passes the connection guard makes exactly
\* one flush call, whatever the number of drain iterations and also when no
\* byte was echoed; an invocation the guard short-circuits makes no flush
\* and no write call.
C1_FlushOncePerGuardedInvocation ==
  /\ NumCalls("flush") <= 1
  /\ Returned => NumCalls("flush") = (IF last.conn THEN 1 ELSE 0)
  /\ (Returned /\ ~last.conn) => NumCalls("write") = 0

\* a guarded invocation that found bytes pending, echoed none and flushed
C1_Witness ==
  /\ ReturnedConnected
  /\ entry.rx > 0
  /\ NumCalls("write") = 0
  /\ NumCalls("flush") = 1

\* ---- C2 -----------------------------------------------------------------

\* C2 echo fidelity: on every interface the bytes passed to write so far,
\* followed by the bytes read but not yet written and the bytes still
\* pending, are exactly the bytes the host delivered, in order; so once the
\* handler has returned with nothing pending, the bytes written equal the
\* bytes delivered, however they were split into events and reads.
C2_EchoFidelity ==
  \A i \in Itfs :
    /\ sent[i] = tx[i] \o InFlight(i) \o rx[i]
    /\ (pc = "idle" /\ rx[i] = <<>>) => tx[i] = sent[i]

\* more than one chunk echoed completely
C2_Witness ==
  /\ ReturnedConnected
  /\ Len(sent[itf]) > 64
  /\ rx[itf] = <<>>
  /\ tx[itf] = sent[itf]

\* ---- C3 -----------------------------------------------------------------

\* the step that is an invocation of tud_cdc_rx_cb while not connected
DisconnectedRx == pc = "idle" /\ last'.op = "rx" /\ ~last'.conn /\ sent' = sent

\* C3 disconnected guard: an invocation fired while not connected returns at
\* once, makes no bytes_available, read or write call and leaves the pending
\* bytes of every interface as they were; a later invocation fired while
\* connected, with normal reads and no arrival during it, has echoed every
\* byte delivered so far, those held back included.
C3_DisconnectedGuard ==
  /\ [][DisconnectedRx => (rx' = rx /\ tx' = tx /\ pc' = "idle")]_vars
  /\ []((last.op = "rx" /\ ~last.conn) =>
          /\ pc = "idle"
          /\ \A k \in Idx : calls[k].op \notin {"available", "read", "write"})
  /\ []((ReturnedConnected /\ ReadsFull /\ entry.arrivals = 0) =>
          (rx[itf] = <<>> /\ tx[itf] = sent[itf]))

\* a disconnected invocation has just left a multi-chunk backlog pending
C3_Witness ==
  /\ Returned
  /\ ~last.conn
  /\ Len(rx[itf]) > 64
  /\ tx[itf] = <<>>

\* ---- C4 -----------------------------------------------------------------

\* C4 zero-read termination: after a read that returned 0 although bytes
\* were pending, the invocation makes no write and no further
\* bytes_available or read call: the only call that follows is the flush,
\* after which the handler has returned; the bytes written by the earlier
\* iterations are still in the transmit side and the unread bytes are still
\* pending for the next event.
C4_ZeroReadTermination ==
  \A k \in Idx :
    (calls[k].op = "read" /\ calls[k].ret = 0 /\ calls[k].pend > 0) =>
      /\ \/ k = Len(calls) /\ pc = "flush"
         \/ k + 1 = Len(calls) /\ calls[k + 1].op = "flush" /\ pc = "idle"
      /\ SubSeq(tx[itf], entry.tx + 1, Len(tx[itf])) = Concat(Writes)
      /\ Len(rx[itf]) >= calls[k].pend
      /\ sent[itf] = tx[itf] \o rx[itf]

\* a zero read in the second iteration, after a chunk was echoed
C4_Witness ==
  /\ Returned
  /\ NumCalls("write") >= 1
  /\ \E k \in Idx : calls[k].op = "read" /\ calls[k].ret = 0 /\ calls[k].pend > 0

\* ---- C5 -----------------------------------------------------------------

\* C5 bounded chunking: every read is requested with capacity 64 and every
\* write is passed a length between 1 and 64, with that many bytes.
C5_BoundedChunking ==
  \A k \in Idx :
    /\ calls[k].op = "read" => calls[k].arg = 64
    /\ calls[k].op = "write" =>
         (calls[k].arg >= 1 /\ calls[k].arg <= 64 /\ Len(calls[k].data) = calls[k].arg)

\* a write of a full chunk while more than 64 bytes were pending
C5_Witness ==
  \E k \in Idx :
    /\ calls[k].op = "write"
    /\ calls[k].arg = 64
    /\ calls[k - 1].pend > 64

\* ---- C6 -----------------------------------------------------------------

\* C6 chunk count: an invocation that passed the guard with N > 0 bytes
\* pending, during which nothing arrived and every read returned
\* min(64, pending), made exactly ceil(N/64) reads and as many writes, each
\* of length 64 except the last, which has the remaining N - 64*(n-1)
\* bytes, and one flush, which is its last call.
C6_ChunkCount ==
  (ReturnedConnected /\ entry.rx > 0 /\ entry.arrivals = 0 /\ ReadsFull) =>
    LET N == entry.rx
        n == CeilDiv(N, 64) IN
      /\ Len(Reads) = n
      /\ Len(Writes) = n
      /\ \A j \in 1 .. Len(Writes) :
           Writes[j].arg = (IF j < n THEN 64 ELSE N - 64 * (n - 1))
      /\ NumCalls("flush") = 1
      /\ calls[Len(calls)].op = "flush"

\* 130 bytes echoed as 64, 64, 2
C6_Witness ==
  /\ ReturnedConnected
  /\ entry.rx = 130
  /\ entry.arrivals = 0
  /\ Len(Writes) = 3
  /\ Writes[1].arg = 64 /\ Writes[2].arg = 64 /\ Writes[3].arg = 2

\* ---- C7 -----------------------------------------------------------------

\* C7 bounded drain: when nothing arrives during the event, every read of an
\* invocation that found N bytes pending finds fewer bytes pending than the
\* read before it (a read that returns 0 is the last one), so the
\* invocation makes at most N reads and N + 1 bytes_available queries: the
\* drain loop ends after at most N iterations.
C7_DrainBound ==
  (last.op = "rx" /\ entry.arrivals = 0) =>
    /\ \A j \in 1 .. Len(Reads) : Reads[j].pend <= entry.rx
    /\ \A j \in 2 .. Len(Reads) : Reads[j].pend < Reads[j - 1].pend
    /\ NumCalls("read") <= entry.rx
    /\ NumCalls("available") <= entry.rx + 1

\* an invocation that needed several iterations and returned
C7_Witness ==
  /\ ReturnedConnected
  /\ entry.arrivals = 0
  /\ entry.rx > 64
  /\ NumCalls("read") >= 2

\* ---- C8 -----------------------------------------------------------------

\* the step that is an invocation of tud_cdc_line_state_cb
LineStateStep == last'.op = "line_state" /\ sent' = sent

\* C8 line_state_changed: for every interface, dtr and rts the callback
\* makes no outbound call and leaves the receive and transmit sides of every
\* interface and the handler's position unchanged; the state after it is
\* determined by the interface and dtr alone, not by rts.
C8_LineStateEffectFree ==
  [][LineStateStep =>
       /\ calls' = <<>>
       /\ rx' = rx /\ tx' = tx /\ flushed' = flushed
       /\ pc' = pc
       /\ dtr' = [dtr EXCEPT ![last'.itf] = last'.dtr]]_vars

\* DTR cleared with RTS set while bytes are pending and written bytes exist
C8_Witness ==
  /\ last.op = "line_state"
  /\ last.rts /\ ~last.dtr
  /\ rx[last.itf] # <<>>
  /\ tx[0] # <<>>
  /\ calls = <<>>

\* ---- C9 -----------------------------------------------------------------

\* a statement of tud_cdc_rx_cb(itf) that makes an outbound call
HandlerStep == pc # "idle" /\ calls' # calls

\* C9 pairing on one interface: every bytes_available, read, write and
\* flush call of tud_cdc_rx_cb(i) names interface i and the handler changes
\* no other interface's buffers; every write directly follows a read that
\* returned c > 0 and is passed those c bytes, in order, with length c; when
\* the invocation has returned, the reads consumed as many bytes as the
\* writes were passed.
C9_Pairing ==
  /\ [](last.op = "rx" =>
          /\ \A k \in Idx : calls[k].itf = itf
          /\ \A k \in Idx : calls[k].op = "write" =>
               /\ k > 1
               /\ calls[k - 1].op = "read"
               /\ calls[k - 1].ret > 0
               /\ calls[k].arg = calls[k - 1].ret
               /\ calls[k].data = calls[k - 1].data
          /\ Returned => SumRet(Reads) = SumArg(Writes))
  /\ [][HandlerStep =>
          \A j \in Itfs \ {itf} :
            rx'[j] = rx[j] /\ tx'[j] = tx[j] /\ flushed'[j] = flushed[j]]_vars

\* interface 1 echoed several chunks while interface 0 holds pending bytes
C9_Witness ==
  /\ ReturnedConnected
  /\ itf = 1
  /\ Len(Writes) >= 2
  /\ rx[0] # <<>>

\* ---- C10 ----------------------------------------------------------------

\* the calls that may directly follow call c in one invocation
Follows(c, d) ==
  \/ c.op = "is_connected" /\ c.ret = 1 /\ d.op = "available"
  \/ c.op = "available" /\ c.ret # 0 /\ d.op = "read"
  \/ c.op = "available" /\ c.ret = 0 /\ d.op = "flush"
  \/ c.op = "read" /\ c.ret # 0 /\ d.op = "write"
  \/ c.op = "read" /\ c.ret = 0 /\ d.op = "flush"
  \/ c.op = "write" /\ d.op = "available"

\* C10 call order: an invocation queries is_connected first and only once;
\* the drain repeats bytes_available, read, write in that order; the flush
\* follows every write and read and is the last call of an invocation that
\* passed the guard.
C10_CallOrder ==
  last.op = "rx" =>
    /\ calls[1].op = "is_connected"
    /\ NumCalls("is_connected") = 1
    /\ \A k \in 2 .. Len(calls) : Follows(calls[k - 1], calls[k])
    /\ ReturnedConnected => calls[Len(calls)].op = "flush"

\* a returned invocation with two complete iterations
C10_Witness ==
  /\ ReturnedConnected
  /\ NumCalls("write") >= 2
  /\ calls[Len(calls)].op = "flush"

====
